---- MODULE Spec2Model ----
(***************************************************************************)
(* Streaming playback engine of music_tg.                                  *)
(*                                                                         *)
(*   StreamingAudioDownloader   src/src/utils/streamingDownload.ts         *)
(*   downloadAudioFileStreaming src/src/utils/telegram.ts                  *)
(*   Player                     src/src/components/Player.tsx              *)
(*   relay downloader           src/unnamed/part_002                       *)
(*   service worker             src/sw.js, src/unnamed/part_006            *)
(*                                                                         *)
(* Every action is one task of the single-threaded event loop: a handler   *)
(* runs from its resumption point to its next await / return.              *)
(*                                                                         *)
(*   Spec        one StreamingAudioDownloader driven by its environment    *)
(*               (media source, source buffer, chunk source, timer, and a  *)
(*               caller that may invoke the returned cleanup at any time). *)
(*   PlayerSpec  the Player's playTrack requests, each with the session    *)
(*               and playback element it creates, and the logout.          *)
(*   PlayNextSpec     the Player with a changing track list and onended.   *)
(*   NegotiationSpec  one downloadAudioFileStreaming call, any MIME type.  *)
(*   RelaySpec   the Player with the relay downloader and the worker.      *)
(***************************************************************************)
EXTENDS Integers, Sequences, FiniteSets, TLC

(* ------------------------------ bounds -------------------------------- *)

\* play requests issued in one run of PlayerSpec (also the session ids)
MaxReq == 3
\* tracks of the list
NumTracks == 2
\* items yielded by the chunk source of the session of Spec
MaxChunks == 3
\* largest chunk length yielded in Spec (0 is the empty chunk)
MaxChunkSize == 2
\* largest declared file size of the session of Spec (0 is unknown)
MaxFileSize == 3
\* items yielded by the chunk source of a session of PlayerSpec
PlayerMaxChunks == 1
\* requests of one run of PlayerSpec whose downloadAudioFileStreaming resolves
MaxSessions == 1
\* play requests issued in a run of PlayerSpec before the user logs out
MaxReqBeforeLogout == 2
\* stream ids the relay transport may draw
MaxStreamIds == 2
\* play requests issued in one run of RelaySpec
MaxRelayReq == 2
\* requests of one run of RelaySpec whose relay start returns a handle
MaxRelaySessions == 2
\* requests one playback element issues for its /stream/{id} URL
MaxFetches == 2

Reqs == 1..MaxReq
Tracks == 1..NumTracks
ChunkSizes == 0..MaxChunkSize
FileSizes == 0..MaxFileSize
StreamIds == 1..MaxStreamIds

VARIABLES
    sess,               \* request id -> StreamingAudioDownloader + its object URL
    req,                \* request id -> playTrack invocation (closure) state
    el,                 \* request id -> state of the Audio element (nextAudio)
    currentTrack,       \* useState currentTrack (0 = null)
    isPlaying,          \* useState isPlaying
    duration,           \* useState duration (0, or 1 once set from an element)
    pendingTrack,       \* useState pendingTrack (0 = null)
    loadingProgress,    \* useState loadingProgress
    loadingTrackIdRef,  \* loadingTrackIdRef.current (0 = null)
    trackCache,         \* trackCacheRef.current: track id -> request whose blob URL is cached (0 = absent)
    cleanupRef,         \* cleanupRef.current: request whose cleanup is stored (0 = null)
    audioRef,           \* audioRef.current: request whose element is active (0 = the initial blank Audio)
    alerts,             \* request id -> number of alert() calls made for it
    nreq,               \* number of playTrack load requests issued so far
    mounted,            \* the Player component is mounted (false after logout)
    tracks,             \* useState tracks: the ordered track list (sequence of track ids)
    neg,                \* one downloadAudioFileStreaming call and its codec negotiation
    sw,                 \* the relay: service worker, messages in flight, element fetches
    playback            \* what the active element is doing ("untracked" where it is not followed)

vars == <<sess, req, el, currentTrack, isPlaying, duration, pendingTrack,
          loadingProgress, loadingTrackIdRef, trackCache, cleanupRef,
          audioRef, alerts, nreq, mounted, tracks, neg, sw, playback>>

playerVars == <<req, el, currentTrack, isPlaying, duration, pendingTrack,
                loadingProgress, loadingTrackIdRef, trackCache, cleanupRef,
                audioRef, alerts, nreq, mounted, tracks>>

\* the state of the codec negotiation and of the relay
auxVars == <<neg, sw, playback>>

(* ------------------- StreamingAudioDownloader ------------------------- *)

\* Fields of the class plus the environment objects it owns.  sizes is the
\* list of lengths of the items the chunk source has yielded so far; a chunk
\* is identified by its index in that list.  appended, progress, eos,
\* overlap, appendFailed (an appendBuffer call threw), deferred
\* (finalizeStream re-armed its timer), releases and raised record what the
\* object did.  The relay
\* variant of the class (transport = "relay") has the abort flag, the
\* download loop and, instead of the media source, the stream id, the
\* conduit (TransformStream) and its writer; fetches, missed and source
\* belong to the playback element that was given its /stream/{id} URL, served
\* counts the responses built from the conduit's readable side, writes lists
\* the chunks handed to writer.write.  client is
\* the backend client the class is written against: "mtcute"
\* (downloadAsIterable) or "gramjs" (iterDownload).
NewSession(fileSize) ==
    [exists |-> TRUE, transport |-> "mse", client |-> "mtcute",
     streamId |-> 0, conduit |-> "none", writing |-> FALSE, written |-> 0,
     writes |-> <<>>,
     fetches |-> 0, missed |-> FALSE, source |-> 0, served |-> 0,
     readyState |-> "closed", openPending |-> FALSE,
     sourceBuffer |-> FALSE, updating |-> FALSE,
     chunks |-> <<>>, isAppending |-> FALSE,
     downloadComplete |-> FALSE, isAborted |-> FALSE,
     dl |-> "idle", sizes |-> <<>>,
     fileSize |-> fileSize, totalDownloaded |-> 0,
     timer |-> FALSE,
     appended |-> <<>>, progress |-> <<>>, eos |-> <<>>,
     overlap |-> FALSE, appendFailed |-> FALSE, deferred |-> FALSE,
     revoked |-> FALSE, releases |-> 0, raised |-> FALSE]

NoSession == [NewSession(0) EXCEPT !.exists = FALSE]

\* the relay downloader right after startStreaming returned: conduit
\* created, downloadToStream waiting for the first chunk
NewRelaySession(id, fileSize) ==
    [NewSession(fileSize) EXCEPT !.transport = "relay", !.streamId = id,
                                 !.conduit = "open", !.dl = "reading"]

\* MediaSource.endOfStream throws InvalidStateError unless the source is open
\* and no source buffer is updating.
EndOfStreamThrows(st) == st.readyState # "open" \/ st.updating

\* faulty variant: a successful endOfStream leaves the source open
EndOfStreamStaysOpen(st, kind, by) ==
    IF EndOfStreamThrows(st) THEN st
    ELSE [st EXCEPT !.eos = Append(@, [by |-> by, kind |-> kind,
                                       complete |-> st.downloadComplete,
                                       empty |-> st.chunks = <<>>,
                                       idle |-> ~st.isAppending])]

\* MediaSource.endOfStream(kind) called by `by`; a throwing call changes nothing.
EndOfStream(st, kind, by) ==
    IF EndOfStreamThrows(st) THEN st
    ELSE [st EXCEPT !.readyState = "ended",
                    !.eos = Append(@, [by |-> by, kind |-> kind,
                                       complete |-> st.downloadComplete,
                                       empty |-> st.chunks = <<>>,
                                       idle |-> ~st.isAppending])]

\* processQueue's early returns (the faulty variants drop the busy
\* checks, or the abort check)
CanAppendNoBusyCheck(st) ==
    st.sourceBuffer /\ st.chunks # <<>> /\ ~st.isAborted

CanAppendNoAbortCheck(st) ==
    ~st.isAppending /\ st.sourceBuffer /\ st.chunks # <<>> /\ ~st.updating

CanAppend(st) ==
    ~st.isAppending /\ st.sourceBuffer /\ st.chunks # <<>> /\ ~st.isAborted
    /\ ~st.updating

\* the chunk processQueue takes from the queue (the faulty variant takes
\* the newest)
NextChunkLast(q) == q[Len(q)]

NextChunk(q) == Head(q)

RestAfter(q, c) == SelectSeq(q, LAMBDA x : x # c)

\* processQueue(); throws: whether appendBuffer throws synchronously.
\* appendBuffer on an updating buffer always throws (and is recorded as an
\* overlapping append).
processQueue(st, throws) ==
    IF ~CanAppend(st) THEN st
    ELSE LET chunk == NextChunk(st.chunks)
             busy == st.updating
             st1 == [st EXCEPT !.chunks = RestAfter(@, chunk),
                               !.isAppending = TRUE,
                               !.appended = Append(@, chunk),
                               !.overlap = @ \/ busy]
         IN IF throws \/ busy
            THEN [st1 EXCEPT !.isAppending = FALSE, !.appendFailed = TRUE]
            ELSE [st1 EXCEPT !.updating = TRUE]

\* finalizeStream's condition
FinalizeReady(st) ==
    st.downloadComplete /\ st.chunks = <<>> /\ ~st.isAppending

\* faulty variant: the recheck is scheduled whether or not the session is
\* aborted
finalizeStreamAlwaysRechecks(st) ==
    IF FinalizeReady(st)
    THEN IF st.readyState = "open" /\ ~st.isAborted
         THEN EndOfStream(st, "normal", "finalizeStream")
         ELSE st
    ELSE [st EXCEPT !.timer = TRUE, !.deferred = TRUE]

\* faulty variant: a finalization that is not ready is not rechecked
finalizeStreamNoRecheck(st) ==
    IF FinalizeReady(st)
    THEN IF st.readyState = "open" /\ ~st.isAborted
         THEN EndOfStream(st, "normal", "finalizeStream")
         ELSE st
    ELSE st

finalizeStream(st) ==
    IF FinalizeReady(st)
    THEN IF st.readyState = "open" /\ ~st.isAborted
         THEN EndOfStream(st, "normal", "finalizeStream")
         ELSE st
    ELSE IF ~st.isAborted
         THEN [st EXCEPT !.timer = TRUE, !.deferred = TRUE]
         ELSE st

\* StreamingAudioDownloader.cleanup() without the readyState test and the
\* try/catch: the error of endOfStream escapes.
cleanupUnguarded(st) ==
    LET st1 == [st EXCEPT !.isAborted = TRUE]
    IN IF EndOfStreamThrows(st1)
       THEN [st1 EXCEPT !.raised = TRUE]
       ELSE EndOfStream(st1, "normal", "cleanup")

\* StreamingAudioDownloader.cleanup(); the relay variant only aborts its
\* AbortController
cleanup(st) ==
    LET st1 == [st EXCEPT !.isAborted = TRUE]
    IN IF st.transport = "relay" THEN st1
       ELSE IF st1.readyState = "open"
       THEN EndOfStream(st1, "normal", "cleanup")
       ELSE st1

\* URL.revokeObjectURL(url): removes the URL from the blob URL store if it is
\* still there, and does nothing otherwise (a /stream/{id} URL never is).
RevokeObjectURL(st) ==
    IF st.revoked \/ st.transport = "relay" THEN st
    ELSE [st EXCEPT !.revoked = TRUE, !.releases = @ + 1]

\* the cleanup closure returned by downloadAudioFileStreaming
cleanupWrapper(st) ==
    IF st.raised THEN st
    ELSE LET st1 == cleanup(st)
         IN IF st1.raised THEN st1 ELSE RevokeObjectURL(st1)

Clients == {"mtcute", "gramjs"}

\* the guard of the onProgress call: the mtcute variant tests fileSize > 0,
\* the gramjs variant only that a callback was given
ReportsProgress(st) ==
    IF st.client = "gramjs" THEN TRUE ELSE st.fileSize > 0

\* stands for the IEEE value of a positive number divided by zero
Infinity == 1000000

\* the value passed to onProgress: (totalDownloaded / fileSize) * 100,
\* integer part
Progress(total, fileSize) ==
    IF fileSize = 0 THEN Infinity ELSE (total * 100) \div fileSize

\* faulty variant: the catch of handleSourceOpen only logs
handleSourceOpenCatchOnlyLogs(st) == st

\* the catch of handleSourceOpen
handleSourceOpenCatch(st) ==
    IF st.readyState = "open"
    THEN EndOfStream(st, "decode", "handleSourceOpen")
    ELSE st

\* the Player's progress closure (lines 164-168); a session that no playTrack
\* owns has a callback that only receives the value
onProgress(s, p) ==
    IF req[s].pc # "none" /\ loadingTrackIdRef = req[s].track
    THEN p ELSE loadingProgress

MaxYield(s) == IF req[s].pc = "none" THEN MaxChunks ELSE PlayerMaxChunks

YieldSizes(s) == IF req[s].pc = "none" THEN ChunkSizes ELSE {1}

\* whether appendBuffer may throw synchronously, and how the open callback
\* may end: every way in Spec, the plain way in the sessions of PlayerSpec
AppendThrows(s) == IF req[s].pc = "none" THEN BOOLEAN ELSE {FALSE}

OpenOutcomes(s) ==
    IF req[s].pc = "none" THEN {"ok", "sbfail", "badmedia"} ELSE {"ok"}

(* ---- session events ---- *)

\* the playback element attaches the media source: readyState becomes open
\* and the sourceopen event is queued
Attach(s) ==
    /\ sess[s].exists /\ sess[s].transport = "mse"
    /\ sess[s].readyState = "closed"
    /\ (req[s].pc = "none" \/ el[s] = "loading")
    /\ sess' = [sess EXCEPT ![s].readyState = "open", ![s].openPending = TRUE]
    /\ UNCHANGED <<playerVars, auxVars>>

\* faulty variant: the download is started without a source buffer
StartDownloadNoBuffer(st) == [st EXCEPT !.dl = "reading"]

\* the plain path of handleSourceOpen: addSourceBuffer, the updateend
\* listener, then downloadInChunks up to its first read
StartDownload(st) == [st EXCEPT !.sourceBuffer = TRUE, !.dl = "reading"]

\* handleSourceOpen up to the first await inside downloadInChunks.
\* outcome: "ok", "sbfail" (addSourceBuffer throws) or "badmedia"
\* (message.media is not a document).
HandleSourceOpen(s, outcome) ==
    /\ sess[s].exists /\ sess[s].openPending
    /\ LET st == [sess[s] EXCEPT !.openPending = FALSE]
       IN sess' = [sess EXCEPT ![s] =
             IF st.readyState # "open" THEN st
             ELSE IF outcome = "sbfail"
                  THEN handleSourceOpenCatch([st EXCEPT !.dl = "failed"])
             ELSE IF outcome = "badmedia"
                  THEN handleSourceOpenCatch(
                          [st EXCEPT !.sourceBuffer = TRUE, !.dl = "failed"])
             ELSE StartDownload(st)]
    /\ UNCHANGED <<playerVars, auxVars>>

\* faulty variant: DOWNLOAD_ABORTED is rethrown to handleSourceOpen like any
\* other error
downloadAbortedRethrown(st) ==
    handleSourceOpenCatch([st EXCEPT !.dl = "failed"])

\* the catch of downloadInChunks on DOWNLOAD_ABORTED: logged, not rethrown
downloadAborted(st) == [st EXCEPT !.dl = "aborted"]

\* one iteration of the for-await loop: the source yields an item of length
\* size
YieldChunk(s, size, throws) ==
    /\ sess[s].exists /\ sess[s].dl = "reading"
    /\ Len(sess[s].sizes) < MaxYield(s)
    /\ LET st == [sess[s] EXCEPT !.sizes = Append(@, size)]
           id == Len(st.sizes)
       IN IF st.isAborted
          THEN \* throw DOWNLOAD_ABORTED, caught and logged
               /\ sess' = [sess EXCEPT ![s] = downloadAborted(st)]
               /\ UNCHANGED loadingProgress
          ELSE IF size = 0
          THEN /\ sess' = [sess EXCEPT ![s] = st]
               /\ UNCHANGED loadingProgress
          ELSE LET st1 == processQueue([st EXCEPT !.chunks = Append(@, id)],
                                       throws)
                   total == st1.totalDownloaded + size
                   st2 == [st1 EXCEPT !.totalDownloaded = total]
               IN IF ReportsProgress(st2)
                  THEN /\ sess' = [sess EXCEPT ![s] =
                              [st2 EXCEPT !.progress =
                                  Append(@, Progress(total, st2.fileSize))]]
                       /\ loadingProgress' =
                              onProgress(s, Progress(total, st2.fileSize))
                  ELSE /\ sess' = [sess EXCEPT ![s] = st2]
                       /\ UNCHANGED loadingProgress
    /\ UNCHANGED <<req, el, currentTrack, isPlaying, duration, pendingTrack,
                   loadingTrackIdRef, trackCache, cleanupRef, audioRef,
                   alerts, nreq>>
    /\ UNCHANGED <<mounted, tracks, auxVars>>

\* the source is exhausted: the loop ends (lines 150-154)
SourceExhausted(s) ==
    /\ sess[s].exists /\ sess[s].dl = "reading"
    /\ sess' = [sess EXCEPT ![s] =
          IF ~sess[s].isAborted
          THEN finalizeStream([sess[s] EXCEPT !.downloadComplete = TRUE,
                                              !.dl = "done"])
          ELSE [sess[s] EXCEPT !.dl = "done"]]
    /\ UNCHANGED <<playerVars, auxVars>>

\* the source raises an error other than DOWNLOAD_ABORTED: rethrown by
\* downloadInChunks, caught by handleSourceOpen
SourceError(s) ==
    /\ sess[s].exists /\ sess[s].dl = "reading"
    /\ sess' = [sess EXCEPT ![s] =
          handleSourceOpenCatch([sess[s] EXCEPT !.dl = "failed"])]
    /\ UNCHANGED <<playerVars, auxVars>>

\* the updateend listener (lines 80-83)
UpdateEnd(s, throws) ==
    /\ sess[s].exists /\ sess[s].updating
    /\ sess' = [sess EXCEPT ![s] =
          processQueue([sess[s] EXCEPT !.updating = FALSE,
                                       !.isAppending = FALSE], throws)]
    /\ UNCHANGED <<playerVars, auxVars>>

\* the setTimeout callback of finalizeStream
TimerFire(s) ==
    /\ sess[s].exists /\ sess[s].timer
    /\ sess' = [sess EXCEPT ![s] = finalizeStream([sess[s] EXCEPT !.timer = FALSE])]
    /\ UNCHANGED <<playerVars, auxVars>>

\* the caller invokes the cleanup closure (Spec only; in PlayerSpec it is
\* invoked from playTrack)
Cleanup(s) ==
    /\ sess[s].exists
    /\ sess' = [sess EXCEPT ![s] = cleanupWrapper(sess[s])]
    /\ UNCHANGED <<playerVars, auxVars>>

(* ------------------------------ Player -------------------------------- *)

\* url: the request whose handle is the src of this request's element
\* (0 = none); blob: the object URL created for the fallback blob
\* ("none", "live", "revoked"); blobReleases: revokeObjectURL calls that
\* removed it from the URL store
NoReq == [track |-> 0, pc |-> "none", stream |-> "none", fallback |-> "none",
          superseded |-> FALSE, url |-> 0, blob |-> "none", blobReleases |-> 0]

PlayerInit ==
    /\ req = [r \in Reqs |-> NoReq]
    /\ el = [r \in Reqs |-> "none"]
    /\ currentTrack = 0
    /\ isPlaying = FALSE
    /\ duration = 0
    /\ pendingTrack = 0
    /\ loadingProgress = 0
    /\ loadingTrackIdRef = 0
    /\ trackCache = [t \in Tracks |-> 0]
    /\ cleanupRef = 0
    /\ audioRef = 0
    /\ alerts = [r \in Reqs |-> 0]
    /\ nreq = 0
    /\ mounted = TRUE

\* the stale-request guard of playTrack: loadingTrackIdRef.current !== track.id
IsStale(r) == loadingTrackIdRef # req[r].track

\* "if (cleanupRef.current) { cleanupRef.current(); cleanupRef.current = null }"
\* applied to the sessions (lines 198-201); the faulty variant only clears
\* the ref
CleanupPreviousOnlyClears(ss) == ss

CleanupPrevious(ss) ==
    IF cleanupRef # 0
    THEN [ss EXCEPT ![cleanupRef] = cleanupWrapper(ss[cleanupRef])]
    ELSE ss

\* "if (!cleanup) trackCacheRef.current.set(track.id, url)" for request r
\* (lines 192-194); the faulty variant caches every handle
CacheInsertAlways(cache, r, hasCleanup) == [cache EXCEPT ![req[r].track] = r]

CacheInsert(cache, r, hasCleanup) ==
    IF hasCleanup THEN cache ELSE [cache EXCEPT ![req[r].track] = r]

\* the test of playTrack's first branch (line 126); audioRef.current is
\* non-null from mount to unmount.  The faulty variant never takes the branch.
IsToggleNever(t) == FALSE

IsToggle(t) == currentTrack = t /\ mounted

\* playTrack(track) for the active track: toggle pause / resume (lines 126-136)
\* the value of playback where the active element is followed
Tracked(v) == IF playback = "untracked" THEN "untracked" ELSE v

\* whether the promise of play() may reject although the element has a
\* source (autoplay policy, decode failure); only where playback is followed
PlayOutcomes == IF playback = "untracked" THEN {TRUE} ELSE BOOLEAN

\* play() on the active element: it plays if the promise resolves, which
\* takes an element that has its source
PlayResult(ok) ==
    IF ok /\ audioRef # 0 /\ el[audioRef] = "ready"
    THEN "playing" ELSE "rejected"

PlayTrackToggle(t) ==
    /\ mounted /\ IsToggle(t)
    /\ isPlaying' = ~isPlaying
    /\ playback' = Tracked(IF isPlaying THEN "paused" ELSE PlayResult(TRUE))
    /\ UNCHANGED <<sess, req, el, currentTrack, duration, pendingTrack,
                   loadingProgress, loadingTrackIdRef, trackCache, cleanupRef,
                   audioRef, alerts, nreq>>
    /\ UNCHANGED <<mounted, tracks, neg, sw>>

\* requests already issued for another track are superseded by a load request
\* for t
Supersede(rq, t) ==
    [r \in Reqs |-> IF rq[r].pc # "none" /\ rq[r].track # t
                    THEN [rq[r] EXCEPT !.superseded = TRUE] ELSE rq[r]]

\* playTrack(track) for a cached track: runs to the end without an await
\* (lines 139-154, 198-260)
PlayTrackCached(t) ==
    /\ mounted /\ ~IsToggle(t) /\ nreq < MaxReq /\ trackCache[t] # 0
    /\ LET r == nreq + 1
       IN /\ nreq' = r
          /\ req' = [Supersede(req, t) EXCEPT ![r] =
                        [NoReq EXCEPT !.track = t, !.pc = "loading",
                                      !.url = trackCache[t]]]
          /\ el' = [el EXCEPT ![r] = "loading"]
    /\ pendingTrack' = t
    /\ loadingTrackIdRef' = t
    /\ loadingProgress' = 0
    /\ sess' = CleanupPrevious(sess)
    /\ cleanupRef' = 0
    /\ UNCHANGED <<currentTrack, isPlaying, duration, trackCache, audioRef,
                   alerts>>
    /\ UNCHANGED <<mounted, tracks, auxVars>>

\* playTrack(track) for a track that is not cached, up to the await of
\* downloadAudioFileStreaming (lines 139-160)
PlayTrackStream(t) ==
    /\ mounted /\ ~IsToggle(t) /\ nreq < MaxReq /\ trackCache[t] = 0
    /\ LET r == nreq + 1
       IN /\ nreq' = r
          /\ req' = [Supersede(req, t) EXCEPT ![r] =
                        [NoReq EXCEPT !.track = t, !.pc = "streaming",
                                      !.stream = "pending"]]
    /\ pendingTrack' = t
    /\ loadingTrackIdRef' = t
    /\ loadingProgress' = 0
    /\ UNCHANGED <<sess, el, currentTrack, isPlaying, duration, trackCache,
                   cleanupRef, audioRef, alerts>>
    /\ UNCHANGED <<mounted, tracks, auxVars>>

\* playTrack(track), up to its first await or its end
PlayTrack(t) == PlayTrackToggle(t) \/ PlayTrackCached(t) \/ PlayTrackStream(t)

\* downloadAudioFileStreaming resolved with {url, cleanup} for the session
\* st; playTrack resumes at line 170 and runs to its end (lines 170-172,
\* 185-260)
\* "if (cleanup) cleanup()" of a request that resolves stale (line 187); the
\* faulty variant only returns
StaleCleanupSkipped(st) == st

StaleCleanup(st) == cleanupWrapper(st)

HandleReturned(r, st) ==
    /\ IF IsStale(r)
       THEN /\ sess' = [sess EXCEPT ![r] = StaleCleanup(st)]
            /\ req' = [req EXCEPT ![r].pc = "returned", ![r].stream = "ok",
                                  ![r].url = r]
            /\ UNCHANGED <<el, cleanupRef, trackCache>>
       ELSE /\ trackCache' = CacheInsert(trackCache, r, TRUE)
            /\ sess' = [CleanupPrevious(sess) EXCEPT ![r] = st]
            /\ cleanupRef' = r
            /\ el' = [el EXCEPT ![r] = "loading"]
            /\ req' = [req EXCEPT ![r].pc = "loading", ![r].stream = "ok",
                                  ![r].url = r]
    /\ UNCHANGED <<currentTrack, isPlaying, duration, pendingTrack,
                   loadingProgress, loadingTrackIdRef, audioRef, alerts, nreq>>

\* downloadAudioFileStreaming resolves with the handle of a media-source
\* session
StreamResolveAny(r) ==
    /\ sw.mode = "mse"
    /\ req[r].pc = "streaming"
    /\ HandleReturned(r, NewSession(PlayerMaxChunks))
    /\ UNCHANGED <<mounted, tracks, auxVars>>

StreamResolve(r) ==
    /\ Cardinality({q \in Reqs : sess[q].exists}) < MaxSessions
    /\ StreamResolveAny(r)

\* downloadAudioFileStreaming rejects (client, chat, message or codec error);
\* the inner catch starts the fallback download (lines 173-181)
StreamFail(r) ==
    /\ req[r].pc = "streaming"
    /\ req' = [req EXCEPT ![r].stream = "failed",
                          ![r].pc = IF IsStale(r) THEN "returned" ELSE "fallback",
                          ![r].fallback = IF IsStale(r) THEN "none" ELSE "pending"]
    /\ UNCHANGED <<sess, el, currentTrack, isPlaying, duration, pendingTrack,
                   loadingProgress, loadingTrackIdRef, trackCache, cleanupRef,
                   audioRef, alerts, nreq>>
    /\ UNCHANGED <<mounted, tracks, auxVars>>

\* the progress closure given to downloadAudioFile, called with the whole
\* file downloaded (lines 177-181)
FallbackProgress(r) ==
    /\ req[r].pc = "fallback"
    /\ loadingProgress' = IF IsStale(r) THEN loadingProgress ELSE 100
    /\ UNCHANGED <<sess, req, el, currentTrack, isPlaying, duration,
                   pendingTrack, loadingTrackIdRef, trackCache, cleanupRef,
                   audioRef, alerts, nreq>>
    /\ UNCHANGED <<mounted, tracks, auxVars>>

\* downloadAudioFile resolves with the blob; URL.createObjectURL(blob) runs
\* before the stale-request guard (lines 182-260)
FallbackResolve(r) ==
    /\ req[r].pc = "fallback"
    /\ IF IsStale(r)
       THEN /\ req' = [req EXCEPT ![r].pc = "returned", ![r].fallback = "ok",
                                  ![r].url = r, ![r].blob = "live"]
            /\ UNCHANGED <<sess, el, trackCache, cleanupRef>>
       ELSE /\ trackCache' = CacheInsert(trackCache, r, FALSE)
            /\ sess' = CleanupPrevious(sess)
            /\ cleanupRef' = 0
            /\ el' = [el EXCEPT ![r] = "loading"]
            /\ req' = [req EXCEPT ![r].pc = "loading", ![r].fallback = "ok",
                                  ![r].url = r, ![r].blob = "live"]
    /\ UNCHANGED <<currentTrack, isPlaying, duration, pendingTrack,
                   loadingProgress, loadingTrackIdRef, audioRef, alerts, nreq>>
    /\ UNCHANGED <<mounted, tracks, auxVars>>

\* downloadAudioFile rejects: the outer catch (lines 262-267)
FallbackFail(r) ==
    /\ req[r].pc = "fallback"
    /\ IF IsStale(r)
       THEN /\ req' = [req EXCEPT ![r].pc = "returned", ![r].fallback = "failed"]
            /\ UNCHANGED <<pendingTrack, alerts>>
       ELSE /\ req' = [req EXCEPT ![r].pc = "failed", ![r].fallback = "failed"]
            /\ pendingTrack' = 0
            /\ alerts' = [alerts EXCEPT ![r] = @ + 1]
    /\ UNCHANGED <<sess, el, currentTrack, isPlaying, duration,
                   loadingProgress, loadingTrackIdRef, trackCache, cleanupRef,
                   audioRef, nreq>>
    /\ UNCHANGED <<mounted, tracks, auxVars>>

\* the element of request r has data to play: a blob URL, or a media source
\* that has been fed and has not been ended with a decode error
HasData(r) ==
    IF req[r].stream = "ok" /\ sess[r].transport = "relay"
    THEN sess[r].source # 0 /\ sess[sess[r].source].written > 0
    ELSE IF req[r].stream = "ok"
    THEN /\ sess[r].appended # <<>>
         /\ \A i \in 1..Len(sess[r].eos) : sess[r].eos[i].kind # "decode"
    ELSE TRUE

\* nextAudio.oncanplay (lines 211-247); the element may emit canplay again
\* after a seek or a stall
CanPlay(r) ==
    /\ el[r] \in {"loading", "ready"} /\ HasData(r)
    /\ IF IsStale(r)
       THEN /\ el' = [el EXCEPT ![r] = "ready"]
            /\ UNCHANGED <<audioRef, currentTrack, pendingTrack, duration,
                           isPlaying, playback>>
       ELSE \* audioRef.current.src = '' on the old element, then the swap
            /\ el' = IF audioRef = 0 THEN [el EXCEPT ![r] = "ready"]
                     ELSE [[el EXCEPT ![r] = "ready"] EXCEPT ![audioRef] = "emptied"]
            /\ audioRef' = r
            /\ currentTrack' = req[r].track
            /\ pendingTrack' = 0
            /\ duration' = req[r].track
            /\ isPlaying' = TRUE
            \* await nextAudio.play(): a rejection is only logged
            /\ \E ok \in PlayOutcomes :
                  playback' = Tracked(IF ok /\ audioRef # r
                                      THEN "playing" ELSE "rejected")
    /\ UNCHANGED <<sess, req, loadingProgress, loadingTrackIdRef, trackCache,
                   cleanupRef, alerts, nreq>>
    /\ UNCHANGED <<mounted, tracks, neg, sw>>

\* why the element of request r emits an error event: its src was set to the
\* empty string; its media source was ended with a decode error; its object
\* URL was revoked before the element attached; its /stream/{id} request
\* was not answered by the relay, or the conduit it reads was aborted; or a
\* blob that cannot be decoded
HasError(r) ==
    \/ el[r] = "emptied"
    \/ /\ el[r] \in {"loading", "ready"} /\ req[r].stream = "ok"
       /\ \/ \E i \in 1..Len(sess[r].eos) : sess[r].eos[i].kind = "decode"
          \/ sess[r].revoked /\ sess[r].readyState = "closed"
          \/ sess[r].missed
          \/ sess[r].source # 0 /\ sess[sess[r].source].conduit = "errored"
    \/ el[r] = "loading" /\ req[r].stream # "ok"

\* nextAudio.onerror (lines 249-257)
ElemError(r) ==
    /\ HasError(r)
    /\ el' = [el EXCEPT ![r] = "failed"]
    /\ IF IsStale(r)
       THEN UNCHANGED <<pendingTrack, alerts>>
       ELSE /\ pendingTrack' = 0
            /\ alerts' = [alerts EXCEPT ![r] = @ + 1]
    /\ playback' = IF r = audioRef THEN Tracked("failed") ELSE playback
    /\ UNCHANGED <<sess, req, currentTrack, isPlaying, duration,
                   loadingProgress, loadingTrackIdRef, trackCache, cleanupRef,
                   audioRef, nreq>>
    /\ UNCHANGED <<mounted, tracks, neg, sw>>

\* handleLogout (lines 368-387) followed by the unmount of the Player that
\* onLogout causes (App.handleLogout, effect cleanup lines 328-335, which
\* finds cleanupRef already null).  Pausing the element does not touch the
\* isPlaying state.
Logout ==
    /\ mounted /\ nreq <= MaxReqBeforeLogout
    /\ sess' = CleanupPrevious(sess)
    /\ cleanupRef' = 0
    /\ req' = [r \in Reqs |->
                 IF req[r].blob = "live" /\ \E t \in Tracks : trackCache[t] = r
                 THEN [req[r] EXCEPT !.blob = "revoked", !.blobReleases = @ + 1]
                 ELSE req[r]]
    /\ trackCache' = [t \in Tracks |-> 0]
    /\ mounted' = FALSE
    /\ UNCHANGED <<el, currentTrack, isPlaying, duration, pendingTrack,
                   loadingProgress, loadingTrackIdRef, audioRef, alerts, nreq,
                   tracks, auxVars>>

(* ---- track list and playNext ---- *)

InList(t) == \E i \in 1..Len(tracks) : tracks[i] = t

\* tracks.findIndex(t => t.id === id): the 0-based index of the first match,
\* -1 without a match
FindIndex(list, id) ==
    IF \E i \in 1..Len(list) : list[i] = id
    THEN (CHOOSE i \in 1..Len(list) :
             list[i] = id /\ \A j \in 1..(i - 1) : list[j] # id) - 1
    ELSE -1

\* the track playNext passes to playTrack (0 = it makes no call), lines 289-293
playNextTarget ==
    IF currentTrack = 0 THEN 0
    ELSE LET currentIndex == FindIndex(tracks, currentTrack)
         IN IF currentIndex < Len(tracks) - 1
            THEN tracks[(currentIndex + 1) + 1]
            ELSE 0

\* setTracks([]) at the start of loadTracks (line 53)
ResetTracks ==
    /\ mounted /\ tracks # <<>>
    /\ tracks' = <<>>
    /\ UNCHANGED <<sess, req, el, currentTrack, isPlaying, duration,
                   pendingTrack, loadingProgress, loadingTrackIdRef,
                   trackCache, cleanupRef, audioRef, alerts, nreq, mounted,
                   auxVars>>

\* the per-track callback of fetchAudioFiles (lines 79-87): appends a track
\* that is not yet listed
TrackFound(t) ==
    /\ mounted /\ ~InList(t)
    /\ tracks' = Append(tracks, t)
    /\ UNCHANGED <<sess, req, el, currentTrack, isPlaying, duration,
                   pendingTrack, loadingProgress, loadingTrackIdRef,
                   trackCache, cleanupRef, audioRef, alerts, nreq, mounted,
                   auxVars>>

\* the user clicks a track of the list
ClickTrack(t) == InList(t) /\ PlayTrack(t)

\* the media of request r can play to its end: a blob, or a media source
\* that has been ended normally
CanEnd(r) ==
    req[r].stream = "ok" =>
       /\ sess[r].readyState = "ended"
       /\ \A i \in 1..Len(sess[r].eos) : sess[r].eos[i].kind = "normal"

\* the active element's onended (lines 231-233): nextTrackTriggerRef.current
\* is the playNext of the latest render, which calls playTrack or nothing
\* the active element plays to its end: it stops and its ended event is
\* queued
PlaybackEnds ==
    /\ playback = "playing"
    /\ audioRef # 0 /\ el[audioRef] = "ready" /\ CanEnd(audioRef)
    /\ playback' = "ended"
    /\ UNCHANGED <<sess, playerVars, neg, sw>>

Ended ==
    /\ mounted /\ audioRef # 0 /\ el[audioRef] = "ready" /\ isPlaying
    /\ CanEnd(audioRef) /\ playback \in {"untracked", "ended"}
    /\ IF playNextTarget = 0 THEN UNCHANGED vars
       ELSE PlayTrack(playNextTarget)

(* ---- downloadAudioFileStreaming and the codec negotiation ---- *)

MP4A == "audio/mp4; codecs=\"mp4a.40.2\""
OPUS == "audio/webm; codecs=\"opus\""

\* the MIME types a track may carry and MediaSource.isTypeSupported may be
\* asked about
MimeTypes == {"audio/mpeg", MP4A, OPUS, "audio/mp4", "audio/webm",
              "audio/ogg", "video/mp4"}

\* mimeType.split('/')[0]
PrimaryType(m) == IF m = "video/mp4" THEN "video" ELSE "audio"

\* type.startsWith(prefix) for a type of MimeTypes and a primary type: no
\* primary type is a proper prefix of another
StartsWith(type, prefix) == PrimaryType(type) = prefix

\* the compatibleTypes array of startStreaming (lines 25-29)
compatibleTypes == <<"audio/mpeg", MP4A, OPUS>>

\* compatibleTypes.find(...) of lines 31-34 ("" = undefined)
FindSupported(mimeType, sup) ==
    LET hits == SelectSeq(compatibleTypes,
                    LAMBDA type : StartsWith(type, PrimaryType(mimeType))
                                  /\ type \in sup)
    IN IF hits = <<>> THEN "" ELSE Head(hits)

\* whether startStreaming's codec validation throws (lines 24-40)
PreflightThrows(mimeType, sup) ==
    /\ mimeType \notin sup
    /\ FindSupported(mimeType, sup) = ""
    /\ mimeType # "audio/mp4" /\ mimeType # "audio/webm"

\* the type handleSourceOpen passes to addSourceBuffer (lines 52-59); the
\* faulty variant passes the requested type
TargetMimeRequested(mimeType, sup) == mimeType

TargetMime(mimeType, sup) ==
    IF mimeType \in sup THEN mimeType
    ELSE IF MP4A \in sup THEN MP4A
    ELSE IF "audio/mpeg" \in sup THEN "audio/mpeg"
    ELSE mimeType

\* one call of downloadAudioFileStreaming.  requests: the client requests
\* issued so far; url: URL.createObjectURL(mediaSource) has been called;
\* sbType: the type of the source buffer created ("" = none)
NewNeg(client, mimeType, sup) ==
    [pc |-> "start", client |-> client, mimeType |-> mimeType,
     supported |-> sup, requests |-> <<>>, url |-> FALSE, error |-> "",
     opened |-> FALSE, sbType |-> "", sbError |-> FALSE]

NegFail(n, error) == [n EXCEPT !.pc = "failed", !.error = error]

NegUnchanged == UNCHANGED <<sess, playerVars, sw, playback>>

\* the call up to "await client.getDialogs" (lines 348-355)
NegCall ==
    /\ neg.pc = "start"
    /\ neg' = IF ~neg.client THEN NegFail(neg, "Client not initialized")
              ELSE [neg EXCEPT !.pc = "dialogs",
                               !.requests = Append(@, "getDialogs")]
    /\ NegUnchanged

\* getDialogs settles; "await client.getMe()" (lines 355-356)
NegDialogs(ok) ==
    /\ neg.pc = "dialogs"
    /\ neg' = IF ~ok THEN NegFail(neg, "network")
              ELSE [neg EXCEPT !.pc = "me", !.requests = Append(@, "getMe")]
    /\ NegUnchanged

\* getMe settles; the dialog lookup and "await client.getMessages"
\* (lines 357-372)
NegMe(ok, found) ==
    /\ neg.pc = "me"
    /\ neg' = IF ~ok THEN NegFail(neg, "network")
              ELSE IF ~found THEN NegFail(neg, "Chat not found")
              ELSE [neg EXCEPT !.pc = "messages",
                               !.requests = Append(@, "getMessages")]
    /\ NegUnchanged

\* getMessages settles; the message checks and the dynamic import
\* (lines 374-387)
NegMessages(outcome) ==
    /\ neg.pc = "messages"
    /\ neg' = IF outcome = "reject" THEN NegFail(neg, "network")
              ELSE IF outcome = "nomessage" THEN NegFail(neg, "Message not found")
              ELSE IF outcome = "nomedia" THEN NegFail(neg, "Message has no media")
              ELSE [neg EXCEPT !.pc = "import"]
    /\ NegUnchanged

\* new StreamingAudioDownloader(); startStreaming runs to its return
\* (telegram.ts 388-401, streamingDownload.ts 23-42, 104-110)
NegStartStreaming ==
    /\ neg.pc = "import"
    /\ neg' = IF PreflightThrows(neg.mimeType, neg.supported)
              THEN NegFail(neg, "unsupported")
              ELSE [neg EXCEPT !.pc = "returned", !.url = TRUE]
    /\ NegUnchanged

\* handleSourceOpen up to addSourceBuffer (lines 44-78); addSourceBuffer
\* throws NotSupportedError for a type the mechanism does not support
NegSourceOpen ==
    /\ neg.pc = "returned" /\ ~neg.opened
    /\ LET targetMime == TargetMime(neg.mimeType, neg.supported)
       IN neg' = IF targetMime \in neg.supported
                 THEN [neg EXCEPT !.opened = TRUE, !.sbType = targetMime]
                 ELSE [neg EXCEPT !.opened = TRUE, !.sbError = TRUE]
    /\ NegUnchanged

(* ---- the relay transport: relay downloader and service worker ---- *)

\* the page and its service worker.  controller: navigator.serviceWorker
\* .controller is set; inflight: REGISTER_STREAM messages posted and not yet
\* handled, oldest first, as <<id, session>>; map: the worker's map, stream
\* id -> session whose readable side is registered (0 = no entry)
NewRelay(controller) ==
    [mode |-> "relay", controller |-> controller, inflight |-> <<>>,
     map |-> [id \in StreamIds |-> 0]]

\* the prerequisite test of the relay startStreaming (lines 19-21); the
\* faulty variant always passes
HasControllerAlways(w) == TRUE

HasController(w) == w.controller

\* the user clicks a track
RelayClick(t) == (IsToggle(t) \/ nreq < MaxRelayReq) /\ PlayTrack(t)

\* the worker's activate handler: clients.claim() makes it the page's
\* controller (sw.js 7-9)
SwClaim ==
    /\ sw.mode = "relay" /\ ~sw.controller
    /\ sw' = [sw EXCEPT !.controller = TRUE]
    /\ UNCHANGED <<sess, playerVars, neg, playback>>

\* startStreaming throws 'Service Worker not active'; downloadAudioFileStreaming
\* rejects and playTrack's inner catch runs (relay lines 19-21, Player.tsx
\* 173-181)
RelayUnavailable(r) ==
    /\ sw.mode = "relay" /\ ~HasController(sw)
    /\ StreamFail(r)

\* startStreaming of the relay variant runs to its return (lines 23-43):
\* stream id drawn, conduit created, REGISTER_STREAM posted, downloadToStream
\* started; then playTrack resumes with the handle /stream/{id}
RelayStart(r, id) ==
    /\ sw.mode = "relay" /\ HasController(sw)
    /\ req[r].pc = "streaming"
    /\ Cardinality({q \in Reqs : sess[q].exists}) < MaxRelaySessions
    /\ HandleReturned(r, NewRelaySession(id, PlayerMaxChunks))
    /\ sw' = [sw EXCEPT !.inflight = Append(@, <<id, r>>)]
    /\ UNCHANGED <<mounted, tracks, neg, playback>>

\* the worker's message listener handles the oldest REGISTER_STREAM message
\* (sw.js 11-17)
SwMessage ==
    /\ sw.mode = "relay" /\ sw.inflight # <<>>
    /\ LET m == Head(sw.inflight)
       IN sw' = [sw EXCEPT !.inflight = Tail(@), !.map[m[1]] = m[2]]
    /\ UNCHANGED <<sess, playerVars, neg, playback>>

\* map.delete(id) after the response has been built (sw.js 41); the faulty
\* variant keeps the entry
ServeEntryKeeps(map, id) == map

ServeEntry(map, id) == [map EXCEPT ![id] = 0]

\* the caller of a downloader that no playTrack owns gives the handle to an
\* element (new Audio(url), load())
ElementLoads(s) ==
    /\ req[s].pc = "none" /\ sess[s].exists /\ el[s] = "none"
    /\ el' = [el EXCEPT ![s] = "loading"]
    /\ UNCHANGED <<sess, req, currentTrack, isPlaying, duration, pendingTrack,
                   loadingProgress, loadingTrackIdRef, trackCache, cleanupRef,
                   audioRef, alerts, nreq, mounted, tracks, auxVars>>

\* the element of request r requests its src /stream/{id}; the worker's fetch
\* listener (sw.js 19-45) answers with the registered stream and removes
\* the entry, or does not call respondWith
Fetch(r) ==
    /\ sw.mode = "relay"
    /\ sess[r].exists /\ sess[r].transport = "relay"
    /\ el[r] \in {"loading", "ready"} /\ sess[r].fetches < MaxFetches
    /\ LET id == sess[r].streamId
           q == sw.map[id]
           s1 == [sess EXCEPT ![r].fetches = @ + 1]
       IN IF q # 0
          THEN /\ sess' = [[s1 EXCEPT ![r].source = q] EXCEPT ![q].served = @ + 1]
               /\ sw' = [sw EXCEPT !.map = ServeEntry(@, id)]
          ELSE /\ sess' = [s1 EXCEPT ![r].missed = TRUE]
               /\ sw' = sw
    /\ UNCHANGED <<playerVars, neg, playback>>

\* faulty variant: the loop does not await writer.write
CanReadNextNoAwait(st) == st.dl = "reading"

\* downloadToStream is at its for-await: the loop is running and the write of
\* the previous chunk has resolved
CanReadNext(st) == st.dl = "reading" /\ ~st.writing

\* one iteration of downloadToStream's loop up to "await writer.write(chunk)"
\* (lines 58-64); an aborted session throws, and the catch aborts the writer
RelayYield(r) ==
    /\ sess[r].exists /\ sess[r].transport = "relay"
    /\ CanReadNext(sess[r])
    /\ Len(sess[r].sizes) < MaxYield(r)
    /\ LET st == [sess[r] EXCEPT !.sizes = Append(@, 1)]
       IN sess' = [sess EXCEPT ![r] =
             IF st.isAborted
             THEN [st EXCEPT !.dl = "aborted", !.conduit = "errored"]
             ELSE [st EXCEPT !.writing = TRUE,
                             !.writes = Append(@, Len(st.sizes))]]
    /\ UNCHANGED <<playerVars, auxVars>>

\* writer.write resolves, which takes a reader pulling from the readable
\* side; then the progress report (lines 64-69)
RelayWriteDone(r) ==
    /\ sess[r].exists /\ sess[r].writing /\ sess[r].served > 0
    /\ LET total == sess[r].totalDownloaded + 1
           st == [sess[r] EXCEPT !.writing = FALSE, !.written = @ + 1,
                                 !.totalDownloaded = total]
       IN IF st.fileSize > 0
          THEN /\ sess' = [sess EXCEPT ![r] =
                      [st EXCEPT !.progress =
                          Append(@, Progress(total, st.fileSize))]]
               /\ loadingProgress' = onProgress(r, Progress(total, st.fileSize))
          ELSE /\ sess' = [sess EXCEPT ![r] = st]
               /\ UNCHANGED loadingProgress
    /\ UNCHANGED <<req, el, currentTrack, isPlaying, duration, pendingTrack,
                   loadingTrackIdRef, trackCache, cleanupRef, audioRef,
                   alerts, nreq, mounted, tracks, auxVars>>

\* the source is exhausted: writer.close() (lines 71-72)
RelaySourceExhausted(r) ==
    /\ sess[r].exists /\ sess[r].transport = "relay"
    /\ CanReadNext(sess[r])
    /\ sess' = [sess EXCEPT ![r].dl = "done", ![r].conduit = "closed"]
    /\ UNCHANGED <<playerVars, auxVars>>

\* the source raises an error: the catch aborts the writer (lines 73-80)
RelaySourceError(r) ==
    /\ sess[r].exists /\ sess[r].transport = "relay"
    /\ CanReadNext(sess[r])
    /\ sess' = [sess EXCEPT ![r].dl = "failed", ![r].conduit = "errored"]
    /\ UNCHANGED <<playerVars, auxVars>>

(* --------------------------- specifications --------------------------- *)

\* the track list as loaded: the tracks in order
AllTracks == [i \in 1..NumTracks |-> i]

\* no downloadAudioFileStreaming call is followed; no relay is in use
NoNeg == [pc |-> "none"]

NoRelay == [mode |-> "mse"]

\* Spec: session 1 right after startStreaming returned its URL
Init ==
    /\ PlayerInit /\ playback = "untracked"
    /\ tracks = AllTracks /\ neg = NoNeg /\ sw = NoRelay
    /\ \E fs \in FileSizes :
          sess = [r \in Reqs |-> IF r = 1 THEN NewSession(fs) ELSE NoSession]

SessionNext(s) ==
    \/ Attach(s)
    \/ \E o \in OpenOutcomes(s) : HandleSourceOpen(s, o)
    \/ \E size \in YieldSizes(s), throws \in AppendThrows(s) :
          YieldChunk(s, size, throws)
    \/ SourceExhausted(s)
    \/ SourceError(s)
    \/ \E throws \in AppendThrows(s) : UpdateEnd(s, throws)
    \/ TimerFire(s)

Next == SessionNext(1) \/ Cleanup(1)

Spec == Init /\ [][Next]_vars

\* The same system for either variant of the class
ProgressInit ==
    /\ PlayerInit /\ playback = "untracked"
    /\ tracks = AllTracks /\ neg = NoNeg /\ sw = NoRelay
    /\ \E fs \in FileSizes, c \in Clients :
          sess = [r \in Reqs |-> IF r = 1
                                 THEN [NewSession(fs) EXCEPT !.client = c]
                                 ELSE NoSession]

ProgressSpec == ProgressInit /\ [][Next]_vars

\* The same system with the scheduling of the event loop: an updateend event
\* the source buffer has queued is dispatched, and a timer that was set
\* fires.
FairSpec ==
    /\ Init /\ [][Next]_vars
    /\ WF_vars(\E throws \in BOOLEAN : UpdateEnd(1, throws))
    /\ WF_vars(TimerFire(1))

\* PlayerSpec: the Player after mount, no request issued yet
PlayerSpecInit ==
    /\ PlayerInit /\ playback = "untracked"
    /\ tracks = AllTracks /\ neg = NoNeg /\ sw = NoRelay
    /\ sess = [r \in Reqs |-> NoSession]

PlayerNext ==
    \/ \E t \in Tracks : PlayTrack(t)
    \/ \E r \in Reqs : StreamResolve(r)
    \/ \E r \in Reqs : StreamFail(r)
    \/ \E r \in Reqs : FallbackProgress(r)
    \/ \E r \in Reqs : FallbackResolve(r)
    \/ \E r \in Reqs : FallbackFail(r)
    \/ \E r \in Reqs : CanPlay(r)
    \/ \E r \in Reqs : ElemError(r)
    \/ \E r \in Reqs : SessionNext(r)
    \/ Logout

PlayerSpec == PlayerSpecInit /\ [][PlayerNext]_vars

\* HandOverSpec: the Player and the handles of its streaming sessions only:
\* every request may get a session, the sessions' media sources stay closed,
\* so only the elements of the fallback path become playable and cut over
HandOverNext ==
    \/ \E t \in Tracks : PlayTrack(t)
    \/ \E r \in Reqs : StreamResolveAny(r)
    \/ \E r \in Reqs : StreamFail(r)
    \/ \E r \in Reqs : FallbackResolve(r)
    \/ \E r \in Reqs : FallbackFail(r)
    \/ \E r \in Reqs : CanPlay(r)
    \/ Logout

HandOverSpec == PlayerSpecInit /\ [][HandOverNext]_vars

\* PlaybackSpec: the Player with the playback of its active element
\* followed, in an environment where downloadAudioFileStreaming always
\* rejects
PlaybackInit ==
    /\ PlayerInit /\ playback = "idle"
    /\ sess = [r \in Reqs |-> NoSession]
    /\ tracks = AllTracks /\ neg = NoNeg /\ sw = NoRelay

PlaybackNext ==
    \/ \E t \in Tracks : PlayTrack(t)
    \/ \E r \in Reqs : StreamFail(r)
    \/ \E r \in Reqs : FallbackResolve(r)
    \/ \E r \in Reqs : FallbackFail(r)
    \/ \E r \in Reqs : CanPlay(r)
    \/ \E r \in Reqs : ElemError(r)
    \/ PlaybackEnds
    \/ Ended

PlaybackSpec == PlaybackInit /\ [][PlaybackNext]_vars

\* ConduitSpec: one relay downloader on its own, right after its registration
\* reached the worker's map and an element was given its /stream/{id} URL
ConduitInit ==
    /\ PlayerInit /\ playback = "untracked"
    /\ tracks = AllTracks /\ neg = NoNeg
    /\ \E fs \in FileSizes :
          sess = [r \in Reqs |-> IF r = 1 THEN NewRelaySession(1, fs)
                                 ELSE NoSession]
    /\ sw = [NewRelay(TRUE) EXCEPT !.map[1] = 1]

ConduitNext ==
    \/ ElementLoads(1)
    \/ Fetch(1)
    \/ RelayYield(1)
    \/ RelayWriteDone(1)
    \/ RelaySourceExhausted(1)
    \/ RelaySourceError(1)
    \/ Cleanup(1)

ConduitSpec == ConduitInit /\ [][ConduitNext]_vars

\* PlayNextSpec: the Player with its track list being loaded and reloaded,
\* in an environment where downloadAudioFileStreaming always rejects (every
\* load takes the whole-file fallback)
PlayNextInit ==
    /\ PlayerInit /\ playback = "untracked"
    /\ sess = [r \in Reqs |-> NoSession]
    /\ tracks = <<>> /\ neg = NoNeg /\ sw = NoRelay

PlayNextNext ==
    \/ Ended
    \/ ResetTracks
    \/ \E t \in Tracks : TrackFound(t)
    \/ \E t \in Tracks : ClickTrack(t)
    \/ \E r \in Reqs : StreamFail(r)
    \/ \E r \in Reqs : FallbackResolve(r)
    \/ \E r \in Reqs : FallbackFail(r)
    \/ \E r \in Reqs : CanPlay(r)
    \/ \E r \in Reqs : ElemError(r)

PlayNextSpec == PlayNextInit /\ [][PlayNextNext]_vars

\* NegotiationSpec: one call of downloadAudioFileStreaming, for any MIME type
\* and any set of types the mechanism supports
NegotiationInit ==
    /\ PlayerInit /\ playback = "untracked"
    /\ sess = [r \in Reqs |-> NoSession]
    /\ tracks = AllTracks /\ sw = NoRelay
    /\ \E client \in BOOLEAN, mimeType \in MimeTypes, sup \in SUBSET MimeTypes :
          neg = NewNeg(client, mimeType, sup)

NegotiationNext ==
    \/ NegCall
    \/ \E ok \in BOOLEAN : NegDialogs(ok)
    \/ \E ok \in BOOLEAN, found \in BOOLEAN : NegMe(ok, found)
    \/ \E outcome \in {"ok", "reject", "nomessage", "nomedia"} :
          NegMessages(outcome)
    \/ NegStartStreaming
    \/ NegSourceOpen

NegotiationSpec == NegotiationInit /\ [][NegotiationNext]_vars

\* RelaySpec: the Player built with the relay variant of the downloader,
\* with or without a controlling service worker at mount; the lookups of
\* downloadAudioFileStreaming succeed
RelayInit ==
    /\ PlayerInit /\ playback = "untracked"
    /\ sess = [r \in Reqs |-> NoSession]
    /\ tracks = AllTracks /\ neg = NoNeg
    /\ \E controller \in BOOLEAN : sw = NewRelay(controller)

RelayNext ==
    \/ \E t \in Tracks : RelayClick(t)
    \/ SwClaim
    \/ \E r \in Reqs : RelayUnavailable(r)
    \/ \E r \in Reqs, id \in StreamIds : RelayStart(r, id)
    \/ SwMessage
    \/ \E r \in Reqs : Fetch(r)
    \/ \E r \in Reqs : RelayYield(r)
    \/ \E r \in Reqs : RelayWriteDone(r)
    \/ \E r \in Reqs : RelaySourceExhausted(r)
    \/ \E r \in Reqs : RelaySourceError(r)
    \/ \E r \in Reqs : FallbackResolve(r)
    \/ \E r \in Reqs : FallbackFail(r)
    \/ \E r \in Reqs : CanPlay(r)
    \/ \E r \in Reqs : ElemError(r)

RelaySpec == RelayInit /\ [][RelayNext]_vars

(* ------------------------------ claims -------------------------------- *)

\* the non-empty chunks the source has yielded so far, in delivery order
Delivered(st) == SelectSeq([i \in 1..Len(st.sizes) |-> i],
                           LAMBDA i : st.sizes[i] > 0)

IsPrefix(a, b) == Len(a) <= Len(b) /\ \A i \in 1..Len(a) : a[i] = b[i]

SignalledBy(st, who) == \E i \in 1..Len(st.eos) : st.eos[i].by = who

\* C1: at most one append is in flight: appendBuffer is never called while
\* the append issued before it has not completed, and the buffer is updating
\* only while isAppending is set.
C1_SingleAppend ==
    \A s \in Reqs : ~sess[s].overlap /\ (sess[s].updating => sess[s].isAppending)

\* a chunk arrived while an append was in flight and was appended after it
C1_Witness ==
    \E s \in Reqs : sess[s].updating /\ Len(sess[s].appended) >= 2
                    /\ sess[s].chunks # <<>>

\* C2: the chunks passed to appendBuffer are always a prefix of the delivery
\* sequence, and the whole delivery sequence once finalizeStream has
\* signalled end-of-stream.
C2_Fifo ==
    \A s \in Reqs :
       /\ IsPrefix(sess[s].appended, Delivered(sess[s]))
       /\ SignalledBy(sess[s], "finalizeStream")
             => sess[s].appended = Delivered(sess[s])

\* a finalized stream of at least two chunks, with an empty item in between
C2_Witness ==
    \E s \in Reqs : /\ SignalledBy(sess[s], "finalizeStream")
                    /\ Len(sess[s].appended) >= 2
                    /\ Len(sess[s].sizes) > Len(sess[s].appended)

\* C3: every normal end-of-stream was signalled with the download complete,
\* the queue empty and no append outstanding.
C3_NormalEosOnlyWhenDone ==
    \A s \in Reqs : \A i \in 1..Len(sess[s].eos) :
       sess[s].eos[i].kind = "normal"
          => sess[s].eos[i].complete /\ sess[s].eos[i].empty /\ sess[s].eos[i].idle

FinalizeSignals(s) ==
    /\ Len(sess'[s].eos) > Len(sess[s].eos)
    /\ sess'[s].eos[Len(sess'[s].eos)].by = "finalizeStream"

\* C4: once a session is aborted, no step issues an append for it and no
\* step of finalizeStream signals end-of-stream for it.
C4_AbortedIsQuiet ==
    [][\A s \in Reqs : sess[s].isAborted
          => sess'[s].appended = sess[s].appended /\ ~FinalizeSignals(s)]_vars

\* an aborted session with a chunk left in its queue, after the updateend of
\* the append that was in flight and after the source yielded once more
C4_Witness ==
    \E s \in Reqs : /\ sess[s].isAborted /\ sess[s].sourceBuffer
                    /\ sess[s].chunks # <<>> /\ ~sess[s].updating
                    /\ sess[s].dl = "aborted"

\* C7: the state after a call of the cleanup closure is a fixed point of the
\* closure, no error escapes it, the object URL is released at most once, and
\* a call on an ended media source signals no further end-of-stream.
C7_CleanupIdempotent ==
    [][\A s \in Reqs :
          (sess[s].exists /\ sess'[s] = cleanupWrapper(sess[s]))
             => /\ cleanupWrapper(sess'[s]) = sess'[s]
                /\ ~sess'[s].raised
                /\ sess'[s].releases <= 1
                /\ (sess[s].readyState = "ended" => sess'[s].eos = sess[s].eos)]_vars

\* cleanup has been called on a session that finalizeStream had ended
C7_Witness ==
    \E s \in Reqs : /\ SignalledBy(sess[s], "finalizeStream")
                    /\ sess[s].isAborted /\ sess[s].revoked
                    /\ sess[s].releases = 1 /\ Len(sess[s].eos) = 1

\* C8: with a positive declared size, the values passed to onProgress are
\* non-decreasing and lie in [0, 100].
C8_ProgressBounded ==
    \A s \in Reqs : sess[s].fileSize > 0 =>
       \A i \in 1..Len(sess[s].progress) :
          /\ sess[s].progress[i] >= 0 /\ sess[s].progress[i] <= 100
          /\ (i > 1 => sess[s].progress[i - 1] <= sess[s].progress[i])

\* a step of request r: a resumption of its playTrack call, an event of its
\* element, or a call of its progress closure
RequestStep(r) ==
    \/ StreamResolve(r) \/ StreamFail(r)
    \/ FallbackProgress(r) \/ FallbackResolve(r) \/ FallbackFail(r)
    \/ CanPlay(r) \/ ElemError(r)
    \/ \E size \in YieldSizes(r), throws \in AppendThrows(r) :
          YieldChunk(r, size, throws)

\* C5: once a load request for another track has been issued, no step of the
\* earlier request changes the active element, the now-playing track, the
\* duration, the playing flag, the pending track, the load progress or the
\* track cache, and none shows an alert.
C5_StaleIsSilent ==
    [][\A r \in Reqs : (req[r].superseded /\ RequestStep(r))
          => UNCHANGED <<audioRef, currentTrack, duration, isPlaying,
                         pendingTrack, loadingProgress, trackCache, alerts>>]_vars

C9_AlertOnlyAfterFallback ==
    \A r \in Reqs :
       /\ alerts[r] <= 1
       /\ (alerts[r] > 0 /\ req[r].stream # "none")
             => /\ req[r].stream = "failed"
                /\ req[r].fallback \in {"ok", "failed"}

\* the streaming attempt of request r has failed: before the handle was
\* returned, or by an error of the chunk source
StreamAttemptFailed(r) ==
    req[r].stream = "failed" \/ (sess[r].exists /\ sess[r].dl = "failed")

\* C10: no alert is shown for a request whose streaming attempt failed unless
\* its fallback download has been started; a request that is stale when
\* downloadAudioFileStreaming rejects starts no fallback and shows no alert.
C10_FallbackBeforeReport ==
    /\ [](\A r \in Reqs : (alerts[r] > 0 /\ StreamAttemptFailed(r))
             => req[r].fallback # "none")
    /\ [][\A r \in Reqs : (StreamFail(r) /\ IsStale(r))
             => req'[r].fallback = "none" /\ alerts' = alerts]_vars

\* C11: short of a logout, while a request for another track is the most
\* recent one, the session of the active element (the now-playing track's)
\* is aborted, and its handle released, only by a step that cuts over to
\* another element; a step that leaves the element active leaves its session
\* alone.
C11_CleanupOnlyAtCutover ==
    [][\A s \in Reqs :
          (/\ mounted' /\ audioRef = s /\ sess[s].exists
           /\ currentTrack = req[s].track /\ loadingTrackIdRef # req[s].track
           /\ \/ ~sess[s].isAborted /\ sess'[s].isAborted
              \/ ~sess[s].revoked /\ sess'[s].revoked)
             => audioRef' # s]_vars

\* C12: the cache maps a track only to the live blob URL of a completed
\* fallback download of that track, never to the handle of a streaming
\* session; and a load request for a cached track takes the cached handle as
\* it is, creates no session and starts no download.
C12_CacheOnlyFallback ==
    /\ [](\A t \in Tracks : trackCache[t] # 0 =>
             LET r == trackCache[t]
             IN /\ req[r].track = t /\ req[r].fallback = "ok"
                /\ req[r].url = r /\ req[r].blob = "live"
                /\ req[r].stream = "failed" /\ ~sess[r].exists)
    /\ [][\A t \in Tracks : (PlayTrack(t) /\ ~IsToggle(t) /\ trackCache[t] # 0)
             => /\ req'[nreq'].url = trackCache[t]
                /\ req'[nreq'].pc = "loading"
                /\ req'[nreq'].stream = "none" /\ req'[nreq'].fallback = "none"
                /\ \A s \in Reqs : sess'[s].exists = sess[s].exists]_vars
    /\ [](\A r \in Reqs : (req[r].pc # "none" /\ req[r].url \notin {0, r})
             => ~sess[r].exists /\ req[r].blob = "none")

\* a later request for a track whose fallback blob was cached is loading the
\* cached handle
C12_Witness ==
    \E r \in Reqs : /\ req[r].pc = "loading" /\ req[r].url \notin {0, r}
                    /\ trackCache[req[r].track] = req[r].url
                    /\ el[r] = "loading"
                    /\ \E q \in Reqs : sess[q].exists

\* C15: a playTrack call for the active track flips the playing flag and
\* does nothing else: no request, session or download is created, and
\* loadingTrackIdRef, pendingTrack, the cache and cleanupRef keep their values.
C15_ToggleFrame ==
    [][\A t \in Tracks : (PlayTrack(t) /\ currentTrack = t)
          => /\ isPlaying' = ~isPlaying
             /\ UNCHANGED <<sess, req, el, nreq, loadingTrackIdRef,
                            pendingTrack, trackCache, cleanupRef, audioRef,
                            currentTrack, loadingProgress>>]_vars

\* the active track was paused by a playTrack call for it, with its session
\* still being fed
C15_Witness ==
    /\ currentTrack # 0 /\ ~isPlaying /\ audioRef # 0
    /\ req[audioRef].track = currentTrack /\ el[audioRef] = "ready"
    /\ pendingTrack = 0 /\ loadingTrackIdRef = currentTrack
    /\ cleanupRef = audioRef /\ sess[audioRef].dl = "reading"

\* the handles created for request r: the object URL of its streaming
\* session and the object URL of its fallback blob
HandleLive(r) ==
    \/ sess[r].exists /\ ~sess[r].revoked
    \/ req[r].blob = "live"

\* C20: no handle is released twice, and once the user has logged out no
\* handle of a request that was discarded as stale is still live (playTrack
\* has returned for such a request and handleLogout has run, so no code is
\* left that could release it).
C20_ReleasedOnce ==
    \A r \in Reqs :
       /\ sess[r].releases <= 1 /\ req[r].blobReleases <= 1
       /\ (~mounted /\ req[r].pc = "returned") => ~HandleLive(r)

\* the track right after the active track's position in the list; 0 when the
\* active track is the last one or is not in the list
NextInList ==
    IF \E i \in 1..(Len(tracks) - 1) : tracks[i] = currentTrack
    THEN tracks[(CHOOSE i \in 1..(Len(tracks) - 1) : tracks[i] = currentTrack) + 1]
    ELSE 0

\* C16: when the active element ends, a load is requested for the track that
\* follows the active track in the list and for no other; without such a
\* track nothing is requested and the Player's state stays as it is.
C16_EndedPlaysFollowing ==
    [][Ended =>
          IF NextInList = 0
          THEN UNCHANGED <<req, nreq, pendingTrack, loadingTrackIdRef,
                           currentTrack, audioRef>>
          ELSE /\ nreq' = nreq + 1
               /\ req'[nreq'].track = NextInList
               /\ \A r \in Reqs \ {nreq'} : req'[r].pc = req[r].pc]_vars

\* the claim's case: the requested type is not supported, no type of the
\* fallback list with the same primary type is supported, and the type is
\* not one of the exempt bare container types
NoPlayableType(n) ==
    /\ n.mimeType \notin n.supported
    /\ \A i \in 1..Len(compatibleTypes) :
          PrimaryType(compatibleTypes[i]) = PrimaryType(n.mimeType)
             => compatibleTypes[i] \notin n.supported
    /\ n.mimeType \notin {"audio/mp4", "audio/webm"}

\* C13: a load of a type that cannot be played issues no network request and
\* creates no handle, and when it fails it fails as unsupported.
C13_UnsupportedFailsFirst ==
    (neg.pc # "none" /\ neg.client /\ NoPlayableType(neg))
       => /\ neg.requests = <<>> /\ ~neg.url
          /\ neg.pc = "failed" => neg.error = "unsupported"

\* C14: requested as audio/mpeg with audio/mpeg unsupported and the mp4a type
\* supported, the start does not fail as unsupported and the source buffer
\* is created, at open time, with the mp4a type.
C14_MpegFallsBackToMp4a ==
    (/\ neg.pc # "none" /\ neg.mimeType = "audio/mpeg"
     /\ "audio/mpeg" \notin neg.supported /\ MP4A \in neg.supported)
       => /\ neg.error # "unsupported"
          /\ neg.sbType \in {"", MP4A}
          /\ neg.opened => neg.sbType = MP4A /\ ~neg.sbError

\* such a load has opened its media source
C14_Witness ==
    /\ neg.pc = "returned" /\ neg.mimeType = "audio/mpeg"
    /\ "audio/mpeg" \notin neg.supported /\ MP4A \in neg.supported
    /\ neg.url /\ neg.opened /\ neg.sbType = MP4A

\* C17: the readable side registered for a session is handed to at most one
\* response; a request that matches an entry removes it in the same step; a
\* request that finds no entry is not answered with a stream and leaves the
\* map as it is.
C17_ServedOnce ==
    /\ [](\A s \in Reqs : sess[s].served <= 1)
    /\ [][\A r \in Reqs : Fetch(r) =>
             LET id == sess[r].streamId
             IN IF sw.map[id] # 0
                THEN sw'.map[id] = 0 /\ sess'[r].source = sw.map[id]
                ELSE /\ sw'.map = sw.map
                     /\ sess'[r].source = sess[r].source
                     /\ \A s \in Reqs : sess'[s].served = sess[s].served]_vars

\* an element whose first request was answered with its stream has issued a
\* second request, which found no entry
C17_Witness ==
    \E r \in Reqs : /\ sess[r].fetches = 2 /\ sess[r].source = r
                    /\ sess[r].served = 1 /\ sess[r].missed
                    /\ sw.map[sess[r].streamId] = 0

\* C18: a request of the playback element for its /stream/{id} handle never
\* comes before the registration: while the element has not been answered,
\* the entry for its id is in the worker's map, and its first request does
\* not miss.
C18_RegisteredBeforeHandle ==
    \A r \in Reqs :
       (sess[r].exists /\ sess[r].transport = "relay" /\ el[r] # "none")
          => /\ sess[r].fetches = 0 => sw.map[sess[r].streamId] = r
             /\ (sess[r].fetches = 1 => ~sess[r].missed)

\* C19: without a controller, the step that ends the streaming attempt of a
\* request creates no conduit, posts no registration and requests no chunk
\* (no session comes into being), and puts a still-current request on the
\* whole-file fallback.
C19_UnavailableFallsBack ==
    [][\A r \in Reqs :
          (/\ sw.mode = "relay" /\ ~sw.controller
           /\ req[r].pc = "streaming" /\ req'[r].pc # "streaming")
             => /\ sess' = sess /\ sw' = sw
                /\ req'[r].stream = "failed"
                /\ IF IsStale(r)
                   THEN req'[r].pc = "returned" /\ req'[r].fallback = "none"
                   ELSE req'[r].pc = "fallback" /\ req'[r].fallback = "pending"]_vars

\* a current request is on the fallback download after its relay start
\* failed for want of a controller; nothing was created or posted
C19_Witness ==
    /\ sw.mode = "relay" /\ ~sw.controller /\ sw.inflight = <<>>
    /\ \A s \in Reqs : ~sess[s].exists
    /\ \E r \in Reqs : /\ req[r].stream = "failed" /\ req[r].pc = "fallback"
                       /\ loadingTrackIdRef = req[r].track

\* a step in which the cleanup closure is applied to session s
CleanupStep(s) ==
    /\ sess[s].exists /\ ~sess[s].isAborted
    /\ sess'[s] = cleanupWrapper(sess[s])

\* C21: a cleanup of a session whose media source is open marks it aborted,
\* signals the decode-error end-of-stream and leaves the source not open,
\* with or without an append outstanding.
C21_CleanupEndsWithDecode ==
    [][\A s \in Reqs :
          (CleanupStep(s) /\ sess[s].readyState = "open")
             => /\ sess'[s].isAborted
                /\ sess'[s].readyState # "open"
                /\ Len(sess'[s].eos) = Len(sess[s].eos) + 1
                /\ sess'[s].eos[Len(sess'[s].eos)].kind = "decode"]_vars

\* C22: a load request invalidated by a later request for a different track
\* never commits when it resolves, also when its own track is requested
\* again afterwards: it is never cut over to, never inserted into the track
\* cache, never stored as the current cleanup, and never raises an alert.
C22_InvalidatedNeverCommits ==
    [][\A r \in Reqs : req[r].superseded
          => /\ (audioRef' = r => audioRef = r)
             /\ (cleanupRef' = r => cleanupRef = r)
             /\ \A t \in Tracks : (trackCache'[t] = r => trackCache[t] = r)
             /\ alerts'[r] = alerts[r]]_vars

\* C23: when cleanup() ran before the media source delivered its open signal,
\* the open callback that runs afterwards creates no source buffer and
\* requests no chunk from the chunk source.
C23_OpenAfterCleanupIsNoOp ==
    [][\A s \in Reqs :
          (sess[s].isAborted /\ sess[s].openPending /\ ~sess'[s].openPending)
             => /\ sess'[s].sourceBuffer = sess[s].sourceBuffer
                /\ sess'[s].dl = sess[s].dl]_vars

\* C24: a synchronous append failure clears the outstanding-append flag and
\* does not abort the session, and drainage continues: after such a failure
\* a session that is not aborted and whose source has completed never sits
\* with chunks in its queue and no append outstanding (nothing would take
\* them out of the queue, and finalization would wait forever).
C24_AppendFailureKeepsDraining ==
    /\ [][\A s \in Reqs :
            (Len(sess'[s].appended) > Len(sess[s].appended)
                /\ ~sess'[s].updating)
               => /\ ~sess'[s].isAppending
                  /\ sess'[s].isAborted = sess[s].isAborted]_vars
    /\ [](\A s \in Reqs :
            (sess[s].appendFailed /\ ~sess[s].isAborted
                /\ sess[s].downloadComplete /\ sess[s].chunks # <<>>)
               => sess[s].updating)

\* C25: once the source sequence of a session has completed, end-of-stream
\* is eventually signalled by finalizeStream, unless the session is aborted
\* or one of its appends threw: a finalization that finds chunks queued or
\* an append outstanding is rechecked until it can signal.
C25_EventuallyFinalized ==
    \A s \in Reqs :
        sess[s].downloadComplete
           ~> (\/ SignalledBy(sess[s], "finalizeStream")
               \/ sess[s].isAborted
               \/ sess[s].appendFailed)

\* a finalization that had to be deferred has signalled end-of-stream, in a
\* session that was not aborted and none of whose appends threw
C25_Witness ==
    \E s \in Reqs :
        /\ sess[s].deferred /\ SignalledBy(sess[s], "finalizeStream")
        /\ ~sess[s].isAborted /\ ~sess[s].appendFailed

\* C26: when the chunk source raises a non-abort error mid-stream, an error
\* end-of-stream is signalled and the media source does not remain open,
\* whether the append pipeline is idle or has an append outstanding.
C26_SourceErrorEndsStream ==
    [][\A s \in Reqs :
          (sess[s].dl = "reading" /\ sess'[s].dl = "failed"
              /\ sess[s].readyState = "open")
             => /\ sess'[s].readyState # "open"
                /\ Len(sess'[s].eos) = Len(sess[s].eos) + 1
                /\ sess'[s].eos[Len(sess'[s].eos)].kind = "decode"]_vars

\* the open callback of session s failed to create its source buffer
BufferCreationFailed(s) == sess[s].dl = "failed" /\ ~sess[s].sourceBuffer

\* C27: when creating the source buffer in the open callback fails, the
\* session is terminal: no chunk is ever requested from the chunk source, no
\* append is ever issued, and the media source is ended with the
\* decode-error variant.
C27_BufferFailureIsTerminal ==
    \A s \in Reqs : BufferCreationFailed(s)
        => /\ sess[s].sizes = <<>> /\ sess[s].chunks = <<>>
           /\ sess[s].appended = <<>> /\ ~sess[s].updating
           /\ sess[s].readyState = "ended"
           /\ Len(sess[s].eos) = 1 /\ sess[s].eos[1].kind = "decode"

\* the buffer creation failed, the source is ended, and the caller's
\* cleanup has run on the session as well
C27_Witness ==
    \E s \in Reqs : BufferCreationFailed(s) /\ sess[s].isAborted
                      /\ sess[s].readyState = "ended"

\* the chunks the download loop accepted: the non-empty items read while the
\* session was not aborted (the item on which the loop saw the abort flag is
\* the last one of sizes)
Accepted(st) ==
    SelectSeq([i \in 1..Len(st.sizes) |-> i],
              LAMBDA i : st.sizes[i] > 0
                         /\ ~(st.dl = "aborted" /\ i = Len(st.sizes)))

RECURSIVE BytesUpTo(_, _)
BytesUpTo(sizes, n) == IF n = 0 THEN 0 ELSE sizes[n] + BytesUpTo(sizes, n - 1)

\* C28: with a total size of zero (or unknown) the progress callback is never
\* invoked, in either variant of the downloader; with a positive total size
\* it is invoked once per accepted non-empty chunk, with the bytes delivered
\* so far divided by the total size, times 100.
C28_ProgressPerChunk ==
    \A s \in Reqs :
        LET st == sess[s]
            acc == Accepted(st)
        IN IF st.fileSize = 0 THEN st.progress = <<>>
           ELSE /\ Len(st.progress) = Len(acc)
                /\ \A i \in 1..Len(acc) :
                      st.progress[i]
                         = (BytesUpTo(st.sizes, acc[i]) * 100) \div st.fileSize

\* C29: startStreaming returns before any chunk is requested; the download
\* is started only by the open callback, after the source buffer was
\* created, so a session that has read anything, or has a non-empty queue,
\* has a source buffer, and a session whose source never opened has read
\* nothing.
C29_QueueImpliesBuffer ==
    \A s \in Reqs : sess[s].transport = "mse" =>
        /\ (sess[s].chunks # <<>> \/ sess[s].sizes # <<>>
               \/ sess[s].dl \in {"reading", "done", "aborted"})
              => sess[s].sourceBuffer
        /\ (sess[s].readyState = "closed" \/ sess[s].openPending)
              => (sess[s].dl = "idle" /\ sess[s].sizes = <<>>
                    /\ ~sess[s].sourceBuffer)

\* chunks are waiting in the queue of a session behind an outstanding append
C29_Witness ==
    \E s \in Reqs : /\ Len(sess[s].chunks) >= 2 /\ sess[s].sourceBuffer
                      /\ sess[s].updating

\* C30: when the download loop of an aborted session gets a chunk, the chunk
\* is discarded (not queued, not appended, no progress reported), the loop
\* stops reading for good, and no error reaches the open callback: no
\* end-of-stream is signalled and the media source is left as it was.
C30_CancellationIsNotFailure ==
    /\ [][\A s \in Reqs :
            (sess[s].isAborted /\ sess[s].dl = "reading"
                /\ Len(sess'[s].sizes) > Len(sess[s].sizes))
               => /\ sess'[s].dl = "aborted"
                  /\ sess'[s].chunks = sess[s].chunks
                  /\ sess'[s].appended = sess[s].appended
                  /\ sess'[s].progress = sess[s].progress
                  /\ sess'[s].eos = sess[s].eos
                  /\ sess'[s].readyState = sess[s].readyState
                  /\ loadingProgress' = loadingProgress]_vars
    /\ [][\A s \in Reqs :
            sess[s].dl = "aborted"
               => /\ sess'[s].dl = "aborted"
                  /\ sess'[s].sizes = sess[s].sizes
                  /\ \A i \in 1..Len(sess'[s].eos) :
                        i > Len(sess[s].eos)
                           => sess'[s].eos[i].kind # "decode"]_vars

\* the loop of an aborted session has read and discarded a non-empty chunk
\* while the media source was still open (cleanup ran during an append)
C30_Witness ==
    \E s \in Reqs :
        /\ sess[s].dl = "aborted" /\ sess[s].isAborted
        /\ sess[s].sizes # <<>> /\ sess[s].sizes[Len(sess[s].sizes)] > 0
        /\ sess[s].readyState = "open" /\ ~sess[s].updating
        /\ \A i \in 1..Len(sess[s].eos) : sess[s].eos[i].kind # "decode"

\* C31: the cutover of a load request is performed at most once: a can-play
\* signal of the element that already is the active one does not pause it,
\* clear its source or reset its listeners.
C31_CutoverOnce ==
    [][\A r \in Reqs :
          (CanPlay(r) /\ audioRef = r /\ el[r] = "ready")
             => el'[r] = "ready"]_vars

\* C32: with an unchanging set of supported types, whenever the pre-flight
\* check of startStreaming accepted the requested type (the handle was
\* returned), the type the open callback passes to addSourceBuffer is one
\* the mechanism supports, and the source buffer is created.
C32_ResolvedTypeSupported ==
    (neg.pc = "returned" /\ neg.opened)
       => /\ ~neg.sbError
          /\ neg.sbType \in neg.supported

\* the streaming sessions whose handle was returned and whose cleanup has not
\* been invoked
Uncleaned == {s \in Reqs : sess[s].exists /\ ~sess[s].isAborted}

\* C33: at most one streaming session whose handle has been returned has not
\* had its cleanup invoked, and it is the one held in the cleanup reference:
\* a session that resolves stale is cleaned up at once, one that resolves
\* current replaces the one held before, after cleaning it up.
C33_OneLiveSession ==
    /\ Cardinality(Uncleaned) <= 1
    /\ \A s \in Uncleaned : cleanupRef = s

\* three sessions were handed over: one is held, the other two have been
\* cleaned up, one of them on resolving stale
C33_Witness ==
    /\ \A s \in Reqs : sess[s].exists
    /\ Cardinality(Uncleaned) = 1
    /\ \E s \in Reqs : sess[s].isAborted /\ req[s].pc = "returned"
    /\ \E s \in Reqs : sess[s].isAborted /\ req[s].pc = "loading"

\* C34: the buffer feeder is work-conserving: in a session that has a source
\* buffer and is not aborted, a chunk waits in the queue only while an
\* append is outstanding.
C34_WorkConserving ==
    \A s \in Reqs :
        (sess[s].sourceBuffer /\ ~sess[s].isAborted
            /\ ~sess[s].isAppending /\ ~sess[s].updating)
           => sess[s].chunks = <<>>

C36_RecheckStopsAfterCleanup ==
    /\ [][\A s \in Reqs :
            sess[s].isAborted => (sess'[s].timer => sess[s].timer)]_vars
    /\ [][\A s \in Reqs :
            (sess[s].isAborted /\ TimerFire(s)) => ~sess'[s].timer]_vars
    /\ \A s \in Reqs :
          (sess[s].isAborted /\ sess[s].timer) ~> ~sess[s].timer

\* the recheck scheduled before the cleanup has run on the aborted session,
\* which still has chunks queued, and none is pending
C36_Witness ==
    \E s \in Reqs :
        /\ sess[s].isAborted /\ sess[s].deferred /\ ~sess[s].timer
        /\ sess[s].downloadComplete /\ sess[s].chunks # <<>>

\* C37: whenever the playing flag is true the active element is playing; in
\* particular the flag is false after the last track of the list has ended
\* and after the play() call made at cutover was rejected.
C37_PlayingFlagIsTrue ==
    (playback # "untracked" /\ isPlaying) => playback = "playing"

\* C38: no registration stays in the worker's map for ever: whenever the map
\* holds an entry for a stream id, some playback element whose source is
\* that /stream/{id} is still there to request it (the request is what
\* removes the entry), also after the owning load request was superseded or
\* its cleanup was invoked.
C38_RegistrationRemoved ==
    \A id \in StreamIds :
        sw.mode = "relay" /\ sw.map[id] # 0
           => \E r \in Reqs : /\ sess[r].exists /\ sess[r].transport = "relay"
                               /\ sess[r].streamId = id
                               /\ el[r] \in {"loading", "ready"}

\* C39: in the relay transport the chunks are handed to the conduit in
\* source order with at most one write outstanding; the conduit is closed
\* only after every chunk of the exhausted source has been written; after
\* cleanup() no further write is issued, and the next chunk read aborts the
\* conduit.
C39_ConduitWrites ==
    /\ [](\A s \in Reqs :
            (sess[s].exists /\ sess[s].transport = "relay") =>
               /\ sess[s].writes = [i \in 1..Len(sess[s].writes) |-> i]
               /\ Len(sess[s].writes)
                     = sess[s].written + (IF sess[s].writing THEN 1 ELSE 0)
               /\ sess[s].conduit = "closed"
                     => /\ sess[s].dl = "done" /\ ~sess[s].writing
                        /\ sess[s].written = Len(sess[s].sizes))
    /\ [][\A s \in Reqs :
            (sess[s].exists /\ sess[s].transport = "relay"
                /\ sess[s].isAborted) =>
               /\ sess'[s].writes = sess[s].writes
               /\ Len(sess'[s].sizes) > Len(sess[s].sizes)
                     => /\ sess'[s].conduit = "errored"
                        /\ sess'[s].dl = "aborted"]_vars

\* every chunk of an exhausted source was written, one after the other, and
\* the conduit was closed
C39_Witness ==
    \E s \in Reqs :
        /\ sess[s].transport = "relay" /\ sess[s].conduit = "closed"
        /\ sess[s].written = MaxChunks
        /\ sess[s].writes = [i \in 1..MaxChunks |-> i]

====
